---- MODULE Spec2Model ----
(***************************************************************************)
(* A model of anacron: the Engine with its semaphore marker, the Monitor   *)
(* thread and the Worker subprocess (engine.py), the Worker loop           *)
(* (worker.py) and the task and settings tables (sql_interface.py).        *)
(*                                                                         *)
(* The specifications share the variables:                                 *)
(*   Spec            Engines, Monitor threads and Worker subprocesses      *)
(*   SpecMonitor     one Engine and its Monitor, with fair scheduling      *)
(*   SpecHost        the host process, its Engines and its signals         *)
(*   SpecInit        processes building an interface on a new database     *)
(*   SpecSettings    processes working on the settings row                 *)
(*   SpecWorker      one Worker process working on the task table          *)
(*   SpecStore       a client of the task table                            *)
(*   SpecKept        clients that keep the entries they have fetched       *)
(*   SpecDecorators  a host using the cron and delegate decorators         *)
(*   SpecResults     a client of the result table                          *)
(***************************************************************************)
EXTENDS Integers, Sequences, FiniteSets, TLC

\* ---------------------------------------------------------------- bounds

\* Engine instances sharing one semaphore file and one database.
NEngines == 2
\* Monitor threads ever started (caps threading.Thread creation).
MaxThreads == 3
\* Worker subprocesses ever spawned (caps subprocess.Popen).
MaxProcs == 2
\* Processes working on the settings row at the same time.
NProcs == 2
\* Largest value an administrator passes to set_max_workers.
MaxSetting == 2
\* Largest running_workers a run reaches (caps the counter).
MaxRunning == 3
\* The clock runs from 0 to MaxTime.
MaxTime == 2
\* Rows the host registers in a run of the Worker specification.
MaxRows == 3
\* Rows the host registers in a run of the Engine specification.
MaxCronRows == 1
\* Largest rowid the task table hands out in a run of the store
\* specification (caps the counter).
MaxRowid == 4
\* Clock values per second: the values in between carry a fraction.
Subseconds == 2

Engines == 1..NEngines
Procs == 1..NProcs
Times == 0..MaxTime

\* Python's None, where a field holds either None or a boolean.
None == "None"
\* The crontab of DEFAULT_CRONTAB; the empty crontab marks a one-shot task.
DEFAULT_CRONTAB == "* * * * *"
Crontabs == {"", DEFAULT_CRONTAB}
\* Function identifiers (module, name): "f" resolves in the Worker,
\* "missing" names a module the Worker cannot import.
Functions == {"f", "missing"}
Resolvable == {"f"}

VARIABLES
    \* --- the filesystem and the configuration (configuration.py)
    semaphore_file,     \* TRUE iff configuration.semaphore_file exists
    is_active,          \* configuration.is_active (None counts as FALSE)
    \* --- Engine fields (engine.py, Engine.__init__)
    _start_allowed,     \* [Engines -> {None, TRUE, FALSE}] as strings
    exit_event,         \* [Engines -> BOOLEAN] threading.Event
    monitor_thread,     \* [Engines -> 0..MaxThreads], 0 is None
    call,               \* [Engines -> position of the host inside stop()]
    returned,           \* [Engines -> value of the last start() call]
    stopped,            \* [Engines -> stop() returned since the last start()]
    \* --- Monitor threads and Worker subprocesses
    threads,            \* Seq of [engine, pc, process]
    procs,              \* Seq of [alive, signalled]
    \* --- the database (sql_interface.py)
    tasks,              \* set of task rows
    settings,           \* the settings row
    \* --- processes working on the settings row
    spc,                \* [Procs -> program counter]
    slocal,             \* [Procs -> settings read by try_increment]
    ilocal,             \* [Procs -> settings read by increment/decrement]
    sret,               \* [Procs -> value of the last try_increment call]
    \* --- one Worker process (worker.py)
    now,                \* the clock
    wpc,                \* the Worker's position in run()
    active,             \* Worker.active
    result,             \* Worker.result
    error_message,      \* Worker.error_message
    fetched,            \* the list handle_tasks iterates over
    current,            \* index of the task in hand
    \* --- a client of the store and of the decorators (decorators.py)
    results,            \* set of result rows
    wrapped,            \* [Functions -> what delegate(func) returned]
    outcome,            \* what the client's last call raised and returned
    \* --- processes that build an interface, and the host's signals
    settings_rows,      \* number of rows of the settings table
    ipc,                \* [Procs -> position in SQLiteInterface.__init__]
    host                \* the host process: alive, signal handlers, trace

engine_vars == <<semaphore_file, is_active, _start_allowed, exit_event,
                 monitor_thread, call, returned, stopped, threads, procs>>
settings_vars == <<settings, spc, slocal, ilocal, sret>>
worker_vars == <<now, wpc, active, result, error_message, fetched, current>>
store_vars == <<results, wrapped, outcome>>
process_vars == <<settings_rows, ipc, host>>
vars == <<engine_vars, tasks, settings_vars, worker_vars, store_vars,
          process_vars>>

\* ------------------------------------------------------- the task table

\* CMD_CREATE_TASK_TABLE: the columns of a row, rowid included. The table
\* is a set of rows; `schedule` is the PRIMARY KEY, rowid is SQLite's own.
TaskRow(rowid, uuid, schedule, crontab, function, arguments) ==
    [rowid |-> rowid, uuid |-> uuid, schedule |-> schedule,
     crontab |-> crontab, function |-> function, arguments |-> arguments]

SetMax(S) == CHOOSE x \in S : \A y \in S : y <= x

\* SQLite assigns a table without AUTOINCREMENT the largest rowid in use
\* plus one, and 1 when the table is empty.
next_rowid(table) ==
    IF table = {} THEN 1 ELSE SetMax({r.rowid : r \in table}) + 1

\* CMD_STORE_CALLABLE: the INSERT fails (sqlite3.IntegrityError) when a row
\* with the same primary key is stored already, and the table is unchanged.
store_fails(table, schedule) == \E r \in table : r.schedule = schedule

store_callable(table, uuid, schedule, crontab, function, arguments) ==
    IF store_fails(table, schedule)
    THEN table
    ELSE table \cup {TaskRow(next_rowid(table), uuid, schedule, crontab,
                             function, arguments)}

\* CMD_DELETE_CRON_CALLABLES
delete_cronjobs(table) == {r \in table : ~(r.crontab # "")}

\* CMD_DELETE_CALLABLE
delete_callable(table, entry) == {r \in table : ~(r.rowid = entry.rowid)}

\* CMD_UPDATE_SCHEDULE. The UPDATE fails (sqlite3.IntegrityError) when
\* another row holds the new primary key, and the table is unchanged.
update_schedule(table, rowid, schedule) ==
    IF \E r \in table : r.rowid # rowid /\ r.schedule = schedule
                        /\ \E q \in table : q.rowid = rowid
    THEN table
    ELSE {IF r.rowid = rowid THEN [r EXCEPT !.schedule = schedule] ELSE r
          : r \in table}

\* datetime_adapter. A clock value t stands for the datetime of second
\* t \div Subseconds and fraction t % Subseconds; datetime.isoformat()
\* writes fields of fixed width and leaves the fraction out when it is 0.
\* The text is the sequence of its fields.
datetime_adapter(value) ==
    IF value % Subseconds = 0
    THEN <<value \div Subseconds>>
    ELSE <<value \div Subseconds, value % Subseconds>>

\* The comparison of two TEXT values by SQLite (collation BINARY, which is
\* memcmp): at the first field that differs the smaller field decides, and
\* a text that is the beginning of a longer one is the smaller.
text_lt(a, b) ==
    \E i \in 1..(Len(a) + 1) :
       /\ i <= Len(b)
       /\ \A j \in 1..(i - 1) : a[j] = b[j]
       /\ (i <= Len(a) => a[i] < b[i])

text_le(a, b) == a = b \/ text_lt(a, b)

\* CMD_GET_CALLABLES_ON_DUE with `schedule < ?` in place of `schedule <= ?`.
get_tasks_on_due_strict(table, schedule) ==
    {r \in table : text_lt(datetime_adapter(r.schedule),
                           datetime_adapter(schedule))}

\* CMD_GET_CALLABLES_ON_DUE: the schedule column holds the text of the
\* adapter, and so does the parameter of the query.
get_tasks_on_due(table, schedule) ==
    {r \in table : text_le(datetime_adapter(r.schedule),
                           datetime_adapter(schedule))}

\* An optional datetime argument: <<>> is None, <<t>> is the datetime t.
OptionalTimes == {<<>>} \cup {<<t>> : t \in Times}

\* SQLiteInterface.register_callable. A `schedule` of None means now.
register_callable(function, uuid, schedule, crontab, arguments) ==
    /\ tasks' = store_callable(tasks, uuid,
                               IF schedule = <<>> THEN now ELSE schedule[1],
                               crontab, function, arguments)

\* ------------------------------------------------------------ engine.py

Bool(b) == IF b THEN "True" ELSE "False"

\* threading.Thread.is_alive() of Monitor thread t.
is_alive(t) == threads[t].pc # "done"

\* subprocess.Popen.poll() is None for Worker subprocess p.
running(p) == procs[p].alive

\* remove_semaphore_file(): unlink, a missing file is no error.
remove_semaphore_file == FALSE

\* The value Engine.start_allowed yields for engine e.
start_allowed(e) ==
    IF _start_allowed[e] = None
    THEN is_active /\ ~semaphore_file
    ELSE _start_allowed[e] = "True"

\* The value Engine.start returns: the method has no return statement.
start_returns(started) == None

\* Engine.start(): evaluates start_allowed (which touches the semaphore file
\* with exist_ok=False the first time only, and caches the outcome), then
\* creates and starts the Monitor thread.
start(e) ==
    /\ call[e] = "idle"
    /\ start_allowed(e) => Len(threads) < MaxThreads
    /\ _start_allowed' = [_start_allowed EXCEPT ![e] = Bool(start_allowed(e))]
    /\ semaphore_file' = IF _start_allowed[e] = None /\ is_active
                         THEN TRUE ELSE semaphore_file
    /\ IF start_allowed(e)
       THEN /\ threads' = Append(threads, [engine |-> e, pc |-> "poll",
                                           process |-> 0])
            /\ monitor_thread' = [monitor_thread EXCEPT ![e] = Len(threads) + 1]
       ELSE UNCHANGED <<threads, monitor_thread>>
    /\ returned' = [returned EXCEPT ![e] = start_returns(start_allowed(e))]
    /\ stopped' = [stopped EXCEPT ![e] = FALSE]
    /\ UNCHANGED <<is_active, exit_event, call, procs>>
    /\ UNCHANGED <<tasks, settings_vars, worker_vars, store_vars, process_vars>>

\* Engine.stop(), first part: set the exit event if the Monitor is alive.
stop(e) ==
    /\ call[e] = "idle"
    /\ exit_event' = [exit_event EXCEPT ![e] =
           IF monitor_thread[e] # 0 /\ is_alive(monitor_thread[e])
           THEN TRUE ELSE exit_event[e]]
    /\ call' = [call EXCEPT ![e] = "clean_up"]
    /\ UNCHANGED <<semaphore_file, is_active, _start_allowed, monitor_thread,
                   returned, stopped, threads, procs>>
    /\ UNCHANGED <<tasks, settings_vars, worker_vars, store_vars, process_vars>>

\* Engine.stop(), second part: clean_up(), after which stop() returns.
clean_up(e) ==
    /\ call[e] = "clean_up"
    /\ semaphore_file' = remove_semaphore_file
    /\ tasks' = delete_cronjobs(tasks)
    /\ call' = [call EXCEPT ![e] = "idle"]
    /\ stopped' = [stopped EXCEPT ![e] = TRUE]
    /\ UNCHANGED <<is_active, _start_allowed, exit_event, monitor_thread,
                   returned, threads, procs>>
    /\ UNCHANGED <<settings_vars, worker_vars, store_vars, process_vars>>

\* start_subprocess(): a new Worker subprocess.
start_subprocess == Append(procs, [alive |-> TRUE, signalled |-> FALSE])

\* start_worker_monitor with `if process is None:` in place of line 60: a
\* Worker is spawned once and a dead one is never replaced.
monitor_poll_once(t) ==
    /\ t \in 1..Len(threads)
    /\ threads[t].pc = "poll"
    /\ IF threads[t].process = 0
       THEN /\ Len(procs) < MaxProcs
            /\ procs' = start_subprocess
            /\ threads' = [threads EXCEPT ![t].process = Len(procs) + 1,
                                          ![t].pc = "wait"]
       ELSE /\ threads' = [threads EXCEPT ![t].pc = "wait"]
            /\ UNCHANGED procs
    /\ UNCHANGED <<semaphore_file, is_active, _start_allowed, exit_event,
                   monitor_thread, call, returned, stopped>>
    /\ UNCHANGED <<tasks, settings_vars, worker_vars, store_vars, process_vars>>

\* start_worker_monitor, lines 60-61: spawn a Worker unless one is running.
monitor_poll(t) ==
    /\ t \in 1..Len(threads)
    /\ threads[t].pc = "poll"
    /\ IF threads[t].process = 0 \/ ~running(threads[t].process)
       THEN /\ Len(procs) < MaxProcs
            /\ procs' = start_subprocess
            /\ threads' = [threads EXCEPT ![t].process = Len(procs) + 1,
                                          ![t].pc = "wait"]
       ELSE /\ threads' = [threads EXCEPT ![t].pc = "wait"]
            /\ UNCHANGED procs
    /\ UNCHANGED <<semaphore_file, is_active, _start_allowed, exit_event,
                   monitor_thread, call, returned, stopped>>
    /\ UNCHANGED <<tasks, settings_vars, worker_vars, store_vars, process_vars>>

\* start_worker_monitor, lines 62-63: exit_event.wait(timeout) returns True
\* when the event is set, and False after the idle time otherwise.
monitor_wait(t) ==
    /\ t \in 1..Len(threads)
    /\ threads[t].pc = "wait"
    /\ threads' = [threads EXCEPT ![t].pc =
           IF exit_event[threads[t].engine] THEN "terminate" ELSE "poll"]
    /\ UNCHANGED <<semaphore_file, is_active, _start_allowed, exit_event,
                   monitor_thread, call, returned, stopped, procs>>
    /\ UNCHANGED <<tasks, settings_vars, worker_vars, store_vars, process_vars>>

\* start_worker_monitor, line 64: process.terminate() sends SIGTERM, which
\* the Worker handles by clearing its active flag (Worker.terminate).
monitor_terminate(t) ==
    /\ t \in 1..Len(threads)
    /\ threads[t].pc = "terminate"
    /\ procs' = [procs EXCEPT ![threads[t].process].signalled =
                     procs[threads[t].process].alive]
    /\ threads' = [threads EXCEPT ![t].pc = "remove"]
    /\ UNCHANGED <<semaphore_file, is_active, _start_allowed, exit_event,
                   monitor_thread, call, returned, stopped>>
    /\ UNCHANGED <<tasks, settings_vars, worker_vars, store_vars, process_vars>>

\* start_worker_monitor, line 65: remove the semaphore file; the thread ends.
monitor_remove(t) ==
    /\ t \in 1..Len(threads)
    /\ threads[t].pc = "remove"
    /\ semaphore_file' = remove_semaphore_file
    /\ threads' = [threads EXCEPT ![t].pc = "done"]
    /\ UNCHANGED <<is_active, _start_allowed, exit_event, monitor_thread,
                   call, returned, stopped, procs>>
    /\ UNCHANGED <<tasks, settings_vars, worker_vars, store_vars, process_vars>>

\* A Worker subprocess ends: run() returns once the active flag is cleared,
\* or the process dies of an exception at any time.
worker_exit(p) ==
    /\ p \in 1..Len(procs)
    /\ procs[p].alive
    /\ procs' = [procs EXCEPT ![p].alive = FALSE]
    /\ UNCHANGED <<semaphore_file, is_active, _start_allowed, exit_event,
                   monitor_thread, call, returned, stopped, threads>>
    /\ UNCHANGED <<tasks, settings_vars, worker_vars, store_vars, process_vars>>

\* configuration.is_active is assigned by the host (activate() sets True,
\* the configuration file and the tests set either value).
set_is_active(b) ==
    /\ is_active # b
    /\ is_active' = b
    /\ UNCHANGED <<semaphore_file, _start_allowed, exit_event, monitor_thread,
                   call, returned, stopped, threads, procs>>
    /\ UNCHANGED <<tasks, settings_vars, worker_vars, store_vars, process_vars>>

\* A host registers a task while the Engines run.
host_registers(crontab) ==
    /\ Cardinality(tasks) < MaxCronRows
    /\ register_callable("f", "", <<>>, crontab, <<>>)
    /\ UNCHANGED <<engine_vars, settings_vars, worker_vars, store_vars, process_vars>>

\* A process loads anacron.sql_interface while the Engines run (the
\* administration tool, another host that imports anacron): the module
\* level builds the interface and calls interface.delete_cronjobs().
import_sql_interface ==
    /\ tasks' = delete_cronjobs(tasks)
    /\ UNCHANGED <<engine_vars, settings_vars, worker_vars, store_vars, process_vars>>

\* ------------------------------------------------------- initial states

\* SQLiteInterface._initialize_settings_table: the row of a new database.
MAX_WORKERS_DEFAULT == 1
initial_settings == [max_workers |-> MAX_WORKERS_DEFAULT, running_workers |-> 0]

\* What a call of the client came to: the operation called, the function
\* it was called for, the exception it raised ("" for none), the value it returned, whether the function ran
\* in the caller, and the rows a query returned. Before any call: nothing.
Outcome(op, func, raised, ret, ran, rows) ==
    [op |-> op, func |-> func, raised |-> raised, ret |-> ret, ran |-> ran,
     rows |-> rows]

no_outcome == Outcome("", "", "", None, FALSE, {})

\* The signals the claims name, and those Terminator.__init__ routes to
\* Terminator.terminate in a host that is no django application.
Signals == {"SIGHUP", "SIGINT", "SIGQUIT", "SIGTERM", "SIGXCPU"}
TerminatorSignals == {"SIGINT", "SIGTERM"}

\* The host process after the import of engine.py: alive, the handlers
\* Terminator.__init__ has installed, and nothing done about a signal yet.
initial_host ==
    [alive |-> TRUE,
     handlers |-> [s \in Signals |-> IF s \in TerminatorSignals
                                     THEN "terminate" ELSE "original"],
     trace |-> <<>>]

\* Engine.__init__ for every Engine; no semaphore file; configuration.is_active
\* is None; empty task and result tables; Worker.__init__.
InitCommon ==
    /\ semaphore_file = FALSE
    /\ is_active = FALSE
    /\ _start_allowed = [e \in Engines |-> None]
    /\ exit_event = [e \in Engines |-> FALSE]
    /\ monitor_thread = [e \in Engines |-> 0]
    /\ call = [e \in Engines |-> "idle"]
    /\ returned = [e \in Engines |-> "no call"]
    /\ stopped = [e \in Engines |-> FALSE]
    /\ threads = <<>>
    /\ procs = <<>>
    /\ tasks = {}
    /\ settings = initial_settings
    /\ spc = [p \in Procs |-> "idle"]
    /\ slocal = [p \in Procs |-> initial_settings]
    /\ ilocal = [p \in Procs |-> initial_settings]
    /\ sret = [p \in Procs |-> "no call"]
    /\ now = 0
    /\ wpc = "run"
    /\ active = TRUE
    /\ result = None
    /\ error_message = None
    /\ fetched = <<>>
    /\ current = 0
    /\ results = {}
    /\ wrapped = [f \in Functions |-> "undecorated"]
    /\ outcome = no_outcome
    /\ host = initial_host

\* The state after the import of anacron in the host: the module level of
\* sql_interface has built the interface, whose __init__ has created the
\* settings row of a new database.
Init ==
    /\ InitCommon
    /\ settings_rows = 1
    /\ ipc = [p \in Procs |-> "done"]

\* A new database that no process has built an interface on yet.
InitFresh ==
    /\ InitCommon
    /\ settings_rows = 0
    /\ ipc = [p \in Procs |-> "import"]

\* ---------------------------------------------- the Engine specification

Next ==
    \/ \E e \in Engines : start(e)
    \/ \E e \in Engines : stop(e)
    \/ \E e \in Engines : clean_up(e)
    \/ \E t \in 1..MaxThreads : monitor_poll(t)
    \/ \E t \in 1..MaxThreads : monitor_wait(t)
    \/ \E t \in 1..MaxThreads : monitor_terminate(t)
    \/ \E t \in 1..MaxThreads : monitor_remove(t)
    \/ \E p \in 1..MaxProcs : worker_exit(p)
    \/ \E b \in BOOLEAN : set_is_active(b)
    \/ \E c \in Crontabs : host_registers(c)
    \/ import_sql_interface

Spec == Init /\ [][Next]_vars

\* ------------------------------------------------------ the settings row
\* Every _execute opens a connection, runs one statement and commits: a
\* get_settings and the set_settings that follows it are two transactions,
\* and other processes run between them.

\* SQLiteInterface.get_settings: the row as stored.
get_settings == settings

\* SQLiteInterface.set_settings: CMD_SETTINGS_UPDATE writes both columns.
set_settings(new) ==
    [max_workers |-> new.max_workers, running_workers |-> new.running_workers]

settings_frame == UNCHANGED <<engine_vars, tasks, worker_vars, store_vars, process_vars>>

\* try_increment_running_workers, lines 511-515: read the row and compare;
\* return False, or go on to increment_running_workers.
try_increment_running_workers(p) ==
    /\ spc[p] = "idle"
    /\ slocal' = [slocal EXCEPT ![p] = get_settings]
    /\ IF get_settings.running_workers < get_settings.max_workers
       THEN /\ spc' = [spc EXCEPT ![p] = "increment"]
            /\ sret' = [sret EXCEPT ![p] = "no call"]
       ELSE /\ spc' = [spc EXCEPT ![p] = "idle"]
            /\ sret' = [sret EXCEPT ![p] = "False"]
    /\ UNCHANGED <<settings, ilocal>>
    /\ settings_frame

\* increment_running_workers, lines 492-493: read the row again and add one.
increment_running_workers(p) ==
    /\ spc[p] = "increment"
    /\ get_settings.running_workers < MaxRunning
    /\ ilocal' = [ilocal EXCEPT ![p] =
           [get_settings EXCEPT !.running_workers = @ + 1]]
    /\ spc' = [spc EXCEPT ![p] = "increment_write"]
    /\ UNCHANGED <<settings, slocal, sret>>
    /\ settings_frame

\* increment_running_workers, line 494, and the return True of line 514.
increment_write(p) ==
    /\ spc[p] = "increment_write"
    /\ settings' = set_settings(ilocal[p])
    /\ spc' = [spc EXCEPT ![p] = "idle"]
    /\ sret' = [sret EXCEPT ![p] = "True"]
    /\ UNCHANGED <<slocal, ilocal>>
    /\ settings_frame

\* decrement_running_workers, lines 501-503: read, and subtract one from a
\* positive value; a value of zero ends the call.
decrement_running_workers(p) ==
    /\ spc[p] = "idle"
    /\ sret' = [sret EXCEPT ![p] = "no call"]
    /\ IF get_settings.running_workers > 0
       THEN /\ ilocal' = [ilocal EXCEPT ![p] =
                   [get_settings EXCEPT !.running_workers = @ - 1]]
            /\ spc' = [spc EXCEPT ![p] = "decrement_write"]
       ELSE UNCHANGED <<ilocal, spc>>
    /\ UNCHANGED <<settings, slocal>>
    /\ settings_frame

\* decrement_running_workers, line 504.
decrement_write(p) ==
    /\ spc[p] = "decrement_write"
    /\ settings' = set_settings(ilocal[p])
    /\ spc' = [spc EXCEPT ![p] = "idle"]
    /\ UNCHANGED <<slocal, ilocal, sret>>
    /\ settings_frame

\* admin.set_max_workers, lines 77-78: read the row, replace max_workers.
set_max_workers(p, workers) ==
    /\ spc[p] = "idle"
    /\ sret' = [sret EXCEPT ![p] = "no call"]
    /\ ilocal' = [ilocal EXCEPT ![p] =
           [get_settings EXCEPT !.max_workers = workers]]
    /\ spc' = [spc EXCEPT ![p] = "set_max_workers_write"]
    /\ UNCHANGED <<settings, slocal>>
    /\ settings_frame

\* admin.set_max_workers, line 79.
set_max_workers_write(p) ==
    /\ spc[p] = "set_max_workers_write"
    /\ settings' = set_settings(ilocal[p])
    /\ spc' = [spc EXCEPT ![p] = "idle"]
    /\ UNCHANGED <<slocal, ilocal, sret>>
    /\ settings_frame

NextSettings ==
    \/ \E p \in Procs : try_increment_running_workers(p)
    \/ \E p \in Procs : increment_running_workers(p)
    \/ \E p \in Procs : increment_write(p)
    \/ \E p \in Procs : decrement_running_workers(p)
    \/ \E p \in Procs : decrement_write(p)
    \/ \E p \in Procs : \E w \in 1..MaxSetting : set_max_workers(p, w)
    \/ \E p \in Procs : set_max_workers_write(p)

SpecSettings == Init /\ [][NextSettings]_vars

\* ------------------------------------- the host process and its signals

\* The two Engine objects of a host that has imported anacron: `_engine` of
\* anacron/__init__.py, which the import and activate() start, and `engine`
\* of engine.py, which the module's Terminator holds.
package_engine == 1
module_engine == 2

\* A signal reaches the host process. For a signal that Terminator.__init__
\* has routed to Terminator.terminate: self.engine.stop() (the exit event
\* of that Engine if its Monitor is alive, then clean_up()), the original
\* handler put back, the signal raised again. For any other signal the
\* original disposition acts at once. Either way the host ends.
host_signal(sig) ==
    /\ host.alive
    /\ call[module_engine] = "idle"
    /\ IF host.handlers[sig] = "terminate"
       THEN /\ exit_event' = [exit_event EXCEPT ![module_engine] =
                   IF /\ monitor_thread[module_engine] # 0
                      /\ is_alive(monitor_thread[module_engine])
                   THEN TRUE ELSE exit_event[module_engine]]
            /\ semaphore_file' = remove_semaphore_file
            /\ tasks' = delete_cronjobs(tasks)
            /\ stopped' = [stopped EXCEPT ![module_engine] = TRUE]
            /\ host' = [alive |-> FALSE,
                        handlers |-> [host.handlers EXCEPT
                                         ![sig] = "original"],
                        trace |-> <<"stop", "restore", "raise">>]
       ELSE /\ host' = [host EXCEPT !.alive = FALSE, !.trace = <<"raise">>]
            /\ UNCHANGED <<exit_event, semaphore_file, tasks, stopped>>
    /\ UNCHANGED <<is_active, _start_allowed, monitor_thread, call, returned,
                   threads, procs>>
    /\ UNCHANGED <<settings_vars, worker_vars, store_vars, settings_rows,
                   ipc>>

\* activate() of anacron/__init__.py: configuration.is_active = True, then
\* _engine.start(), which is Engine.start() of package_engine with the
\* configuration active.
activate ==
    /\ call[package_engine] = "idle"
    /\ is_active' = TRUE
    /\ LET cached == _start_allowed[package_engine]
           allowed == IF cached = None THEN ~semaphore_file
                      ELSE cached = "True"
       IN  /\ allowed => Len(threads) < MaxThreads
           /\ _start_allowed' = [_start_allowed EXCEPT
                                    ![package_engine] = Bool(allowed)]
           /\ semaphore_file' = IF cached = None THEN TRUE
                                ELSE semaphore_file
           /\ IF allowed
              THEN /\ threads' = Append(threads,
                                        [engine |-> package_engine,
                                         pc |-> "poll", process |-> 0])
                   /\ monitor_thread' = [monitor_thread EXCEPT
                          ![package_engine] = Len(threads) + 1]
              ELSE UNCHANGED <<threads, monitor_thread>>
           /\ returned' = [returned EXCEPT
                              ![package_engine] = start_returns(allowed)]
    /\ stopped' = [stopped EXCEPT ![package_engine] = FALSE]
    /\ UNCHANGED <<exit_event, call, procs>>
    /\ UNCHANGED <<tasks, settings_vars, worker_vars, store_vars, process_vars>>

\* The host: the import of anacron calls _engine.start(); the host calls
\* activate(); _engine.stop() runs (it is registered with atexit); the
\* Monitor runs in a thread of the host; signals arrive.
NextHost ==
    \/ host.alive /\ start(package_engine)
    \/ host.alive /\ activate
    \/ host.alive /\ stop(package_engine)
    \/ host.alive /\ clean_up(package_engine)
    \/ \E t \in 1..MaxThreads : host.alive /\ monitor_poll(t)
    \/ \E t \in 1..MaxThreads : host.alive /\ monitor_wait(t)
    \/ \E t \in 1..MaxThreads : host.alive /\ monitor_terminate(t)
    \/ \E t \in 1..MaxThreads : host.alive /\ monitor_remove(t)
    \/ \E p \in 1..MaxProcs : worker_exit(p)
    \/ \E sig \in Signals : host_signal(sig)

SpecHost == Init /\ [][NextHost]_vars

\* The Engine of the package with its Monitor, and nothing else of the
\* host: the import calls _engine.start(), the host calls activate() and
\* _engine.stop(), the Monitor thread runs and Worker subprocesses end.
NextMonitor ==
    \/ start(package_engine)
    \/ activate
    \/ stop(package_engine)
    \/ clean_up(package_engine)
    \/ \E t \in 1..MaxThreads : monitor_poll(t)
    \/ \E t \in 1..MaxThreads : monitor_wait(t)
    \/ \E t \in 1..MaxThreads : monitor_terminate(t)
    \/ \E t \in 1..MaxThreads : monitor_remove(t)
    \/ \E p \in 1..MaxProcs : worker_exit(p)

\* The scheduling of the Monitor threads: a thread that can take the next
\* step of its loop takes it in the end (exit_event.wait returns after
\* monitor_idle_time at the latest).
SpecMonitor ==
    /\ Init
    /\ [][NextMonitor]_vars
    /\ \A t \in 1..MaxThreads :
          /\ WF_vars(monitor_poll(t))
          /\ WF_vars(monitor_wait(t))
          /\ WF_vars(monitor_terminate(t))
          /\ WF_vars(monitor_remove(t))

\* ------------------------- sql_interface.py, SQLiteInterface.__init__

init_frame ==
    UNCHANGED <<engine_vars, tasks, spc, slocal, ilocal, sret, worker_vars,
                store_vars, host>>

\* SQLiteInterface.__init__ in process p, up to the count of
\* _initialize_settings_table: _create_tables (CREATE TABLE IF NOT EXISTS)
\* and `rows = self._count_table_rows(...)`, a transaction of its own.
interface_count(p) ==
    /\ ipc[p] = "import"
    /\ ipc' = [ipc EXCEPT ![p] = IF settings_rows = 0 THEN "insert"
                                 ELSE "done"]
    /\ UNCHANGED <<settings, settings_rows>>
    /\ init_frame

\* _initialize_settings_table, the branch of `if not rows`: the INSERT of
\* the default values. The table has no key, so the INSERT always adds a
\* row; get_settings reads the first row of the table, which an added row
\* leaves as it is.
interface_insert(p) ==
    /\ ipc[p] = "insert"
    /\ settings_rows' = settings_rows + 1
    /\ settings' = IF settings_rows = 0 THEN initial_settings ELSE settings
    /\ ipc' = [ipc EXCEPT ![p] = "done"]
    /\ init_frame

\* Process p builds another interface on the same database (the import of
\* sql_interface by a new Worker process, SQLiteInterface(db_name=...)).
new_interface(p) ==
    /\ ipc[p] = "done"
    /\ spc[p] = "idle"
    /\ ipc' = [ipc EXCEPT ![p] = "import"]
    /\ UNCHANGED <<settings, settings_rows>>
    /\ init_frame

NextInit ==
    \/ \E p \in Procs : interface_count(p)
    \/ \E p \in Procs : interface_insert(p)
    \/ \E p \in Procs : new_interface(p)
    \/ \E p \in Procs : \E w \in 1..MaxSetting :
          ipc[p] = "done" /\ set_max_workers(p, w)
    \/ \E p \in Procs : set_max_workers_write(p)

SpecInit == InitFresh /\ [][NextInit]_vars

\* ----------------------------------- sql_interface.py, the result table

TASK_STATUS_WAITING == 0
TASK_STATUS_READY == 1
TASK_STATUS_ERROR == 3

\* configuration.result_ttl, in values of the model clock (a host sets it
\* in the configuration file).
result_ttl == 1

\* Correlation ids.
Uuids == {"u1", "u2"}

\* What update_result is called with: a result, or an error message.
Updates == {<<"42", "">>, <<"43", "">>, <<None, "boom">>}

\* SQLiteInterface._get_result_ttl
_get_result_ttl(at) == at + result_ttl

\* CMD_STORE_RESULT with the data of register_result. The INSERT fails
\* (sqlite3.IntegrityError) when the uuid, the primary key, is stored.
store_result(table, at, func, uuid) ==
    IF \E e \in table : e.uuid = uuid
    THEN table
    ELSE table \cup {[uuid |-> uuid, status |-> TASK_STATUS_WAITING,
                      function |-> func, function_result |-> None,
                      error_message |-> "", ttl |-> _get_result_ttl(at)]}

\* CMD_UPDATE_RESULT with the parameters of update_result.
update_result(table, at, uuid, res, message) ==
    {IF e.uuid = uuid
     THEN [e EXCEPT !.status = IF message # "" THEN TASK_STATUS_ERROR
                                ELSE TASK_STATUS_READY,
                    !.function_result = res,
                    !.error_message = message,
                    !.ttl = _get_result_ttl(at)]
     ELSE e : e \in table}

\* CMD_DELETE_OUTDATED_RESULTS without the condition on the status.
delete_outdated_results_any_status(table, at) ==
    {e \in table : ~text_le(datetime_adapter(e.ttl), datetime_adapter(at))}

\* CMD_DELETE_OUTDATED_RESULTS: `status == 1 AND ttl <= ?`, on the text of
\* the datetimes.
delete_outdated_results(table, at) ==
    {e \in table : ~(/\ e.status = TASK_STATUS_READY
                     /\ text_le(datetime_adapter(e.ttl),
                                datetime_adapter(at)))}

\* ------------------------------------------------------------ worker.py

worker_frame == UNCHANGED <<engine_vars, settings_vars, store_vars, process_vars>>

\* All orders in which a SELECT may return the rows of a set.
Orders(S) ==
    {q \in [1..Cardinality(S) -> S] : \A i, j \in 1..Cardinality(S) :
                                         i # j => q[i] # q[j]}

\* interface.get_callables(), which Worker.handle_tasks calls. The class
\* SQLiteInterface defines no method of this name; it is taken to be the
\* fetch of the entries that are due, which the Worker loop is described
\* to make (get_tasks_on_due at the current time).
get_callables == get_tasks_on_due(tasks, now)

\* Worker.run, line 42, and Worker.handle_tasks, lines 54-55 and 60: leave
\* the loop when the active flag is cleared; otherwise fetch the due entries,
\* and sleep for the idle time when there are none.
run ==
    /\ wpc = "run"
    /\ IF ~active
       THEN /\ wpc' = "exited"
            /\ UNCHANGED <<fetched, current>>
       ELSE \E q \in Orders(get_callables) :
               /\ fetched' = q
               /\ IF Len(q) > 0
                  THEN wpc' = "process_task" /\ current' = 1
                  ELSE wpc' = "run" /\ current' = 0
    /\ UNCHANGED <<tasks, now, active, result, error_message>>
    /\ worker_frame

\* The outcome of process_task for a task: "raise" when the function does
\* not resolve (import_module and getattr stand outside the try), and
\* otherwise the NameError of line 81, whose `args` and `kwargs` are bound
\* nowhere: the call is not made and the except clause stores the error.
process_outcome(task) ==
    IF task.function \notin Resolvable
    THEN [raises |-> TRUE, result |-> None, error_message |-> None]
    ELSE [raises |-> FALSE, result |-> None, error_message |-> "NameError"]

\* Worker.process_task for the task in hand. An exception that leaves it
\* leaves handle_tasks and run too, and the process ends.
process_task ==
    /\ wpc = "process_task"
    /\ LET out == process_outcome(fetched[current]) IN
       IF out.raises
       THEN /\ wpc' = "crashed"
            /\ UNCHANGED <<result, error_message>>
       ELSE /\ wpc' = "postprocess_task"
            /\ result' = IF out.result = None THEN result ELSE out.result
            /\ error_message' = out.error_message
    /\ UNCHANGED <<tasks, now, active, fetched, current>>
    /\ worker_frame

\* The task table after postprocess_task(task): the method is `pass`.
postprocess_table(table, task, at) == table

\* Worker.postprocess_task, and the step of the for loop of handle_tasks.
postprocess_task ==
    /\ wpc = "postprocess_task"
    /\ tasks' = postprocess_table(tasks, fetched[current], now)
    /\ error_message' = None
    /\ result' = None
    /\ IF current < Len(fetched)
       THEN wpc' = "process_task" /\ current' = current + 1
       ELSE wpc' = "run" /\ UNCHANGED current
    /\ UNCHANGED <<now, active, fetched>>
    /\ worker_frame

\* Worker.terminate, the handler of the termination signals.
terminate ==
    /\ wpc \notin {"exited", "crashed", "killed"}
    /\ active
    /\ active' = FALSE
    /\ UNCHANGED <<tasks, now, wpc, result, error_message, fetched, current>>
    /\ worker_frame

\* The Worker process is ended by a signal other than the five that
\* Worker.__init__ routes to terminate (SIGKILL cannot be handled): the
\* process stops where it stands and nothing of it runs any more. The
\* index of the task in hand is kept only when the task was in execution.
kill ==
    /\ wpc \in {"run", "process_task", "postprocess_task"}
    /\ wpc' = "killed"
    /\ current' = IF wpc = "process_task" THEN current ELSE 0
    /\ UNCHANGED <<tasks, now, active, result, error_message, fetched>>
    /\ worker_frame

\* A new Worker process starts after the last one ended: the import of
\* sql_interface by worker.py builds the module's interface and runs
\* interface.delete_cronjobs(), then start_worker() makes a Worker
\* (Worker.__init__) and enters run().
start_worker ==
    /\ wpc \in {"exited", "crashed", "killed"}
    /\ tasks' = delete_cronjobs(tasks)
    /\ active' = TRUE
    /\ result' = None
    /\ error_message' = None
    /\ fetched' = <<>>
    /\ current' = 0
    /\ wpc' = "run"
    /\ UNCHANGED now
    /\ worker_frame

\* Time passes.
tick ==
    /\ now < MaxTime
    /\ now' = now + 1
    /\ UNCHANGED <<tasks, wpc, active, result, error_message, fetched, current>>
    /\ worker_frame

\* The host registers a task while the Worker runs.
host_register_callable(function, schedule, crontab) ==
    /\ Cardinality(tasks) < MaxRows
    /\ register_callable(function, "", schedule, crontab, <<>>)
    /\ UNCHANGED <<now, wpc, active, result, error_message, fetched, current>>
    /\ worker_frame

\* Correlation ids of the tasks queued while the Worker runs.
WorkerUuids == {"u1"}

\* The host queues a delegated task whose result is asked for, as the
\* producer contract has it: interface.register_result(func, uuid), then
\* interface.register_callable(func, uuid=uuid).
host_register_delegated(function, uuid) ==
    /\ Cardinality(tasks) < MaxRows
    /\ \A e \in results : e.uuid # uuid
    /\ results' = store_result(results, now, function, uuid)
    /\ register_callable(function, uuid, <<>>, "", <<>>)
    /\ UNCHANGED <<now, wpc, active, result, error_message, fetched, current>>
    /\ UNCHANGED <<engine_vars, settings_vars, wrapped, outcome,
                   process_vars>>

NextWorker ==
    \/ run
    \/ process_task
    \/ postprocess_task
    \/ terminate
    \/ kill
    \/ start_worker
    \/ tick
    \/ \E f \in Functions, s \in OptionalTimes, c \in Crontabs :
          host_register_callable(f, s, c)
    \/ \E u \in WorkerUuids : host_register_delegated("f", u)

SpecWorker == Init /\ [][NextWorker]_vars

\* ------------------------------------- sql_interface.py, the task table

\* A client of the interface works on the task table; no Engine and no
\* Worker runs.
store_frame ==
    UNCHANGED <<engine_vars, settings_vars, wpc, active, result,
                error_message, fetched, current, results, wrapped,
                process_vars>>

\* interface.register_callable(func, schedule=schedule, crontab=crontab)
call_register_callable(function, schedule, crontab) ==
    /\ Cardinality(tasks) < MaxRows
    /\ next_rowid(tasks) <= MaxRowid
    /\ register_callable(function, "", schedule, crontab, <<>>)
    /\ outcome' = Outcome("register_callable", function,
                          IF store_fails(tasks, IF schedule = <<>> THEN now
                                                ELSE schedule[1])
                          THEN "IntegrityError" ELSE "",
                          None, FALSE, {})
    /\ UNCHANGED now
    /\ store_frame

\* interface.get_tasks_on_due(schedule). A `schedule` of None means now.
call_get_tasks_on_due(schedule) ==
    /\ outcome' = Outcome("get_tasks_on_due", "", "", None, FALSE,
                          get_tasks_on_due(tasks, IF schedule = <<>> THEN now
                                                  ELSE schedule[1]))
    /\ UNCHANGED <<tasks, now>>
    /\ store_frame

\* The client keeps an entry that its last get_tasks_on_due has returned,
\* to pass it to delete_callable or update_schedule later on.
call_keep_entry(entry) ==
    /\ outcome.op = "get_tasks_on_due"
    /\ entry \in outcome.rows
    /\ fetched' = <<entry>>
    /\ UNCHANGED <<tasks, now, outcome>>
    /\ UNCHANGED <<engine_vars, settings_vars, wpc, active, result,
                   error_message, current, results, wrapped, process_vars>>

\* The entries the client has kept.
kept_entries == {fetched[i] : i \in 1..Len(fetched)}

\* interface.delete_callable(entry), for an entry a query has returned.
call_delete_callable(entry) ==
    /\ tasks' = delete_callable(tasks, entry)
    /\ outcome' = Outcome("delete_callable", "", "", None, FALSE, {})
    /\ UNCHANGED now
    /\ store_frame

\* The UPDATE of update_schedule hits the primary key of another row.
update_fails(table, rowid, schedule) ==
    /\ \E q \in table : q.rowid = rowid
    /\ \E r \in table : r.rowid # rowid /\ r.schedule = schedule

\* interface.update_schedule(rowid, schedule)
call_update_schedule(rowid, schedule) ==
    /\ tasks' = update_schedule(tasks, rowid, schedule)
    /\ outcome' = Outcome("update_schedule", "",
                          IF update_fails(tasks, rowid, schedule)
                          THEN "IntegrityError" ELSE "",
                          None, FALSE, {})
    /\ UNCHANGED now
    /\ store_frame

\* Time passes.
store_tick ==
    /\ now < MaxTime
    /\ now' = now + 1
    /\ UNCHANGED <<tasks, outcome>>
    /\ store_frame

NextStore ==
    \/ \E f \in Functions, s \in OptionalTimes, c \in Crontabs :
          call_register_callable(f, s, c)
    \/ \E s \in OptionalTimes : call_get_tasks_on_due(s)
    \/ \E entry \in tasks : call_delete_callable(entry)
    \/ \E rowid \in 1..MaxRowid, s \in Times : call_update_schedule(rowid, s)
    \/ store_tick

SpecStore == Init /\ [][NextStore]_vars

\* Clients that pass delete_callable and update_schedule the entries their
\* queries have returned, as the Worker loop is to do with the entries it
\* has fetched, while rows are registered at the current time.
NextKept ==
    \/ \E f \in Functions, c \in Crontabs : call_register_callable(f, <<>>, c)
    \/ call_get_tasks_on_due(<<>>)
    \/ \E entry \in tasks : call_keep_entry(entry)
    \/ \E entry \in kept_entries : call_delete_callable(entry)
    \/ \E entry \in kept_entries, s \in Times :
          call_update_schedule(entry.rowid, s)
    \/ store_tick

SpecKept == Init /\ [][NextKept]_vars

\* -------------------------------------------------------- decorators.py

\* The crontab of the tests, and a text that is no crontab of five fields.
TEST_CRONTAB == "10 2 1 * *"
MALFORMED_CRONTAB == "* * *"
DecoratorCrontabs == {DEFAULT_CRONTAB, TEST_CRONTAB, MALFORMED_CRONTAB}

\* Positional arguments of a call of a delegated function.
Args == {<<>>, <<1>>}

\* What a decorated function returns when it runs (delegate_function of
\* the tests returns 42).
function_result(func) == "42"

\* CronScheduler(crontab=crontab) raises ScheduleError for a text that is
\* no crontab. The module schedule.py is not part of the source tree; the
\* scheduler is taken as described.
crontab_is_valid(crontab) == crontab \in {DEFAULT_CRONTAB, TEST_CRONTAB}

\* CronScheduler.get_next_schedule(): the first occurrence of the crontab
\* strictly after `at`. DEFAULT_CRONTAB matches every whole second of the
\* model clock, TEST_CRONTAB every second one.
get_next_schedule(crontab, at) ==
    LET step == IF crontab = DEFAULT_CRONTAB THEN Subseconds
                ELSE 2 * Subseconds
    IN  ((at \div step) + 1) * step

\* interface.find_callables(func), which cron calls. SQLiteInterface
\* defines no method of this name; it is taken to return the rows of the
\* function, as get_tasks_by_signature does.
find_callables(table, func) == {r \in table : r.function = func}

\* The task table after the loop of cron's wrapper: delete_callable(entry)
\* for every entry of the function with a non-empty crontab.
cron_kept(table, func) ==
    {r \in table :
        \A entry \in find_callables(table, func) :
           entry.crontab # "" => r \in delete_callable(table, entry)}

\* cron's wrapper with the loop moved before the CronScheduler is built.
cron_table_delete_first(table, at, func, crontab) ==
    IF ~crontab_is_valid(crontab)
    THEN cron_kept(table, func)
    ELSE store_callable(cron_kept(table, func), "",
                        get_next_schedule(crontab, at), crontab, func, <<>>)

\* The task table after cron's wrapper has run with an active
\* configuration: the schedule is computed first (a ScheduleError leaves
\* here), then the loop deletes, then register_callable inserts.
cron_table(table, at, func, crontab) ==
    IF ~crontab_is_valid(crontab)
    THEN table
    ELSE store_callable(cron_kept(table, func), "",
                        get_next_schedule(crontab, at), crontab, func, <<>>)

\* The exception that leaves cron's wrapper, "" for none.
cron_raises(table, at, func, crontab) ==
    IF ~crontab_is_valid(crontab) THEN "ScheduleError"
    ELSE IF store_fails(cron_kept(table, func),
                        get_next_schedule(crontab, at))
         THEN "IntegrityError" ELSE ""

\* The decorators run in the host; no Engine and no Worker runs.
host_frame ==
    UNCHANGED <<semaphore_file, _start_allowed, exit_event, monitor_thread,
                call, returned, stopped, threads, procs, settings_vars,
                wpc, active, result, error_message, fetched, current,
                process_vars>>

\* cron(crontab)(func): the decorator applied to a function.
cron(func, crontab) ==
    /\ next_rowid(tasks) <= MaxRowid
    /\ Cardinality(tasks) < MaxRows \/ cron_kept(tasks, func) # tasks
    /\ IF is_active
       THEN /\ tasks' = cron_table(tasks, now, func, crontab)
            /\ outcome' =
                 LET raised == cron_raises(tasks, now, func, crontab)
                 IN  Outcome("cron", func, raised,
                             IF raised = "" THEN func ELSE None, FALSE, {})
       ELSE /\ tasks' = tasks
            /\ outcome' = Outcome("cron", func, "", func, FALSE, {})
    /\ UNCHANGED <<is_active, now, results, wrapped>>
    /\ host_frame

\* delegate(func): the decorator applied to a function. What it returns
\* is settled here, by the configuration at the time of the decoration.
delegate(func) ==
    /\ wrapped[func] = "undecorated"
    /\ wrapped' = [wrapped EXCEPT
                     ![func] = IF ~is_active THEN "func" ELSE "wrapper"]
    /\ outcome' = Outcome("delegate", func, "", wrapped'[func], FALSE, {})
    /\ UNCHANGED <<is_active, now, tasks, results>>
    /\ host_frame

\* A call of what delegate(func) returned, with the given arguments: the
\* wrapper registers the task and returns None, the function itself runs.
call_wrapped(func, args) ==
    /\ wrapped[func] # "undecorated"
    /\ IF wrapped[func] = "wrapper"
       THEN /\ Cardinality(tasks) < MaxRows
            /\ next_rowid(tasks) <= MaxRowid
            /\ register_callable(func, "", <<>>, "", args)
            /\ outcome' = Outcome("call", func,
                                  IF store_fails(tasks, now)
                                  THEN "IntegrityError" ELSE "",
                                  None, FALSE, {})
       ELSE /\ tasks' = tasks
            /\ outcome' = Outcome("call", func, "", function_result(func),
                                  TRUE, {})
    /\ UNCHANGED <<is_active, now, results, wrapped>>
    /\ host_frame

\* delegate(provide_result=True), as the tests call it: delegate takes the
\* function as its only parameter, and the call raises TypeError.
delegate_provide_result(func) ==
    /\ outcome' = Outcome("delegate(provide_result=True)", func,
                          "TypeError", None, FALSE, {})
    /\ UNCHANGED <<is_active, now, tasks, results, wrapped>>
    /\ host_frame

NextDecorators ==
    \/ \E b \in BOOLEAN : set_is_active(b)
    \/ \E f \in Functions, c \in DecoratorCrontabs : cron(f, c)
    \/ \E f \in Functions : delegate(f)
    \/ \E f \in Functions, a \in Args : call_wrapped(f, a)
    \/ \E f \in Functions : delegate_provide_result(f)
    \/ \E f \in Functions : call_register_callable(f, <<>>, DEFAULT_CRONTAB)
    \/ store_tick

SpecDecorators == Init /\ [][NextDecorators]_vars

\* ---------------------- sql_interface.py, a client of the result table

\* A client works on the result table.
result_frame ==
    UNCHANGED <<engine_vars, settings_vars, wpc, active, result,
                error_message, fetched, current, tasks, now, wrapped,
                process_vars>>

\* interface.register_result(func, uuid)
call_register_result(func, uuid) ==
    /\ results' = store_result(results, now, func, uuid)
    /\ outcome' = Outcome("register_result", func,
                          IF \E e \in results : e.uuid = uuid
                          THEN "IntegrityError" ELSE "",
                          None, FALSE, {})
    /\ result_frame

\* interface.update_result(uuid, result=res, error_message=message)
call_update_result(uuid, res, message) ==
    /\ results' = update_result(results, now, uuid, res, message)
    /\ outcome' = Outcome("update_result", "", "", None, FALSE, {})
    /\ result_frame

\* interface.delete_outdated_results(); the rows of the outcome are the
\* entries the DELETE has removed.
call_delete_outdated_results ==
    /\ results' = delete_outdated_results(results, now)
    /\ outcome' = Outcome("delete_outdated_results", "", "", None, FALSE,
                          results \ results')
    /\ result_frame

NextResults ==
    \/ \E f \in Functions, u \in Uuids : call_register_result(f, u)
    \/ \E u \in Uuids, d \in Updates : call_update_result(u, d[1], d[2])
    \/ call_delete_outdated_results
    \/ store_tick

SpecResults == Init /\ [][NextResults]_vars

\* ----------------------------------------------------------- the claims

Alive == {t \in 1..Len(threads) : is_alive(t)}
AliveWorkers == {p \in 1..Len(procs) : running(p)}

\* C1: under any interleaving of start() and stop() calls on the Engines
\* that share the semaphore file, at most one Monitor runs at any time.
C1_AtMostOneMonitor == Cardinality(Alive) <= 1

\* C2: at any time at most one Worker subprocess spawned by a Monitor is
\* alive.
C2_AtMostOneWorker == Cardinality(AliveWorkers) <= 1

\* C3: when the semaphore file exists at the call, start() returns False,
\* starts no Monitor thread and leaves the semaphore file in place.
C3_NoStartOnSemaphore ==
    [][\A e \in Engines :
          (start(e) /\ semaphore_file) =>
              /\ returned'[e] = "False"
              /\ threads' = threads
              /\ semaphore_file']_vars

\* C4: start() returns True exactly when the configuration is active and
\* this call created the semaphore file, and then the file exists and the
\* Monitor thread is alive; with the configuration not active it returns
\* False and creates neither the file nor a Monitor thread.
C4_StartReturnsWhetherStarted ==
    [][\A e \in Engines :
          start(e) =>
              /\ (returned'[e] = "True") <=>
                     (is_active /\ ~semaphore_file /\ semaphore_file')
              /\ returned'[e] = "True" =>
                     /\ semaphore_file'
                     /\ monitor_thread'[e] # 0
                     /\ threads'[monitor_thread'[e]].pc # "done"
              /\ ~is_active =>
                     /\ returned'[e] = "False"
                     /\ semaphore_file' = semaphore_file
                     /\ threads' = threads]_vars

\* C5: when stop() returns after a successful start(), the Monitor thread
\* is no longer alive, its Worker subprocess has been terminated, and the
\* semaphore file is absent.
C5_StopWaitsForCleanup ==
    [][\A e \in Engines :
          (clean_up(e) /\ monitor_thread[e] # 0) =>
              LET t == threads'[monitor_thread[e]] IN
              /\ t.pc = "done"
              /\ t.process # 0 =>
                     (procs'[t.process].signalled \/ ~procs'[t.process].alive)
              /\ ~semaphore_file']_vars

\* C6: a stop() call that follows another stop() call on the same Engine
\* returns with the semaphore file absent, no Monitor of this Engine alive
\* and no recurring row in the task table.
C6_StopIdempotent ==
    [][\A e \in Engines :
          (clean_up(e) /\ stopped[e]) =>
              /\ ~semaphore_file'
              /\ \A t \in 1..Len(threads') :
                    threads'[t].engine = e => threads'[t].pc = "done"
              /\ \A r \in tasks' : r.crontab = ""]_vars

\* C7: 0 <= running_workers <= max_workers in every state of the settings
\* row, under any interleaving of the calls of concurrent processes.
C7_RunningWorkersInRange ==
    /\ 0 <= settings.running_workers
    /\ settings.running_workers <= settings.max_workers

\* C8: try_increment_running_workers() returns True only if the value it
\* incremented was below max_workers, so two callers that run while one
\* permit is free never both return True.
C8_TryIncrementAtomic ==
    \A p \in Procs :
       sret[p] = "True" =>
           ilocal[p].running_workers - 1 < ilocal[p].max_workers

\* The task the Worker has in hand.
task_in_hand == fetched[current]

\* C9: a one-shot task (empty crontab) is absent from the task table after
\* the Worker has processed it.
C9_OneShotDeleted ==
    [][(postprocess_task /\ task_in_hand.crontab = "") =>
           ~ \E r \in tasks' : r.rowid = task_in_hand.rowid]_vars

\* C10: a recurring task (non-empty crontab) is still in the task table
\* after the Worker has processed it, with a schedule strictly greater than
\* its schedule before.
C10_RecurringAdvances ==
    [][(postprocess_task /\ task_in_hand.crontab # "") =>
           \E r \in tasks' :
              /\ r.rowid = task_in_hand.rowid
              /\ \A q \in tasks : q.rowid = r.rowid => r.schedule > q.schedule
              /\ r.schedule > task_in_hand.schedule]_vars

\* C11: at-least-once execution. A task row is removed or rescheduled only
\* after the invocation of its function has finished: killing the Worker
\* while it processes a task leaves the task table as it was, and when the
\* next Worker starts the row of that task is still stored, unchanged and
\* due, for that Worker to fetch and execute again.
C11_AtLeastOnce ==
    [][/\ (kill /\ wpc = "process_task") => tasks' = tasks
       /\ (start_worker /\ wpc = "killed" /\ current \in 1..Len(fetched)
              /\ task_in_hand \in tasks)
            => /\ task_in_hand \in tasks'
               /\ task_in_hand \in get_tasks_on_due(tasks', now')]_vars


\* C12: for any stored task rows and any timestamp t, get_tasks_on_due(t)
\* returns exactly the rows whose schedule is at or before t: a row due
\* later than t is left out and a row due at t is included.
C12_DueExactly ==
    [][\A s \in OptionalTimes :
          call_get_tasks_on_due(s)
          => outcome'.rows = {r \in tasks :
                                r.schedule <= (IF s = <<>> THEN now ELSE s[1])}
      ]_vars

\* C12 happens: the query at the schedule of a row B returned B and left
\* out a row A that is due later.
C12_Witness ==
    /\ outcome.op = "get_tasks_on_due"
    /\ \E A, B \in tasks :
          /\ B.schedule < A.schedule
          /\ outcome.rows = {r \in tasks : r.schedule <= B.schedule}
          /\ B \in outcome.rows
          /\ A \notin outcome.rows

\* C13: register_callable always inserts a task row. Every call raises the
\* number of stored rows by exactly one and leaves the rows stored before
\* as they were, whatever the function and the schedule, a schedule equal
\* to that of a stored row included.
C13_RegisterAlwaysInserts ==
    [][\A f \in Functions, s \in OptionalTimes, c \in Crontabs :
          call_register_callable(f, s, c)
          => /\ Cardinality(tasks') = Cardinality(tasks) + 1
             /\ tasks \subseteq tasks'
      ]_vars

\* C14: delete_callable and update_schedule act on the one row of the given
\* rowid. delete_callable(entry) removes exactly that row; update_schedule(
\* rowid, schedule) sets the schedule of exactly that row to the new value;
\* every other row stays as it was.
C14_SingleRow ==
    [][/\ \A entry \in tasks :
             call_delete_callable(entry) => tasks' = tasks \ {entry}
       /\ \A rowid \in 1..MaxRowid, s \in Times :
             call_update_schedule(rowid, s)
             => tasks' = {IF r.rowid = rowid
                          THEN [r EXCEPT !.schedule = s] ELSE r : r \in tasks}
      ]_vars

\* C15: after the cron decorator has registered a function with a crontab
\* while the configuration is active, the store holds exactly one row of
\* the function and its crontab is the given one, however many recurring
\* rows of the function were stored before; while the configuration is
\* inactive the decorator stores nothing and returns the function. (Stated
\* for a function all of whose stored rows are recurring.)
C15_CronExactlyOne ==
    [][\A f \in Functions, c \in {DEFAULT_CRONTAB, TEST_CRONTAB} :
          (cron(f, c) /\ \A r \in find_callables(tasks, f) : r.crontab # "")
          => IF is_active
             THEN \E r \in tasks' :
                     /\ r.crontab = c
                     /\ find_callables(tasks', f) = {r}
             ELSE tasks' = tasks /\ outcome'.ret = f
      ]_vars

C17_Delegate ==
    [][\A f \in Functions, a \in Args :
          call_wrapped(f, a)
          => IF is_active
             THEN /\ ~outcome'.ran
                  /\ outcome'.ret # function_result(f)
                  /\ \E r \in tasks' \ tasks :
                        /\ tasks' = tasks \cup {r}
                        /\ r.function = f
                        /\ r.arguments = a
             ELSE /\ outcome'.ran
                  /\ outcome'.ret = function_result(f)
                  /\ tasks' = tasks
      ]_vars

\* C18: a delegate call that asks for a result (provide_result=True) with
\* the configuration active returns a string correlation id, stores exactly
\* one task row carrying that id, and a Result entry of that id exists in
\* status waiting from the same moment on.
C18_ResultRegistered ==
    [][\A f \in Functions :
          (delegate_provide_result(f) /\ is_active)
          => /\ outcome'.raised = ""
             /\ outcome'.ret \in Uuids
             /\ \E r \in tasks' \ tasks :
                   /\ tasks' = tasks \cup {r}
                   /\ r.uuid = outcome'.ret
             /\ \E e \in results' :
                   /\ e.uuid = outcome'.ret
                   /\ e.status = TASK_STATUS_WAITING
      ]_vars

\* C19: the status of a Result entry changes exactly once. An entry starts
\* as waiting, and once it is ready or error no later operation changes
\* its status, its stored return value or its error message.
C19_ResultSettlesOnce ==
    [][/\ \A e \in results' :
             (\A o \in results : o.uuid # e.uuid)
             => e.status = TASK_STATUS_WAITING
       /\ \A o \in results, e \in results' :
             (o.uuid = e.uuid /\ o.status # TASK_STATUS_WAITING)
             => /\ e.status = o.status
                /\ e.function_result = o.function_result
                /\ e.error_message = o.error_message
      ]_vars

\* C20: delete_outdated_results() never deletes a Result entry before its
\* expiry: an entry whose ttl is at or after the time of the sweep
\* (now <= ttl, now = ttl included) survives the sweep.
C20_NoEarlyDelete ==
    [][call_delete_outdated_results
       => \A e \in results : now <= e.ttl => e \in results'
      ]_vars

\* C21: every Result entry whose ttl has passed (now > ttl) is deleted by
\* the next delete_outdated_results() sweep, whatever its status; no
\* expired entry survives a sweep.
C21_ExpiredDeleted ==
    [][call_delete_outdated_results
       => \A e \in results : now > e.ttl => e \notin results'
      ]_vars

\* C21 as the code has it: a sweep deletes every entry in status ready
\* whose ttl has passed, and leaves every entry in status waiting or error
\* in the table, whatever its ttl.
C21_ExpiredReadyDeleted ==
    [][call_delete_outdated_results
       => \A e \in results :
             /\ (now > e.ttl /\ e.status = TASK_STATUS_READY)
                => e \notin results'
             /\ e.status # TASK_STATUS_READY => e \in results'
      ]_vars

\* C21 happens: a sweep has deleted an expired entry and has left an
\* expired entry that is not in status ready.
C21_Witness ==
    /\ outcome.op = "delete_outdated_results"
    /\ \E d \in outcome.rows : now > d.ttl
    /\ \E e \in results : now > e.ttl /\ e.status # TASK_STATUS_READY

\* C22: the settings table holds exactly one row once a store has been
\* initialized. The first initialization creates the row with max_workers
\* 1 and running_workers 0, and no initialization, whichever process runs
\* it and whatever runs beside it, adds a second row or changes the values
\* of the row that is there.
C22_OneSettingsRow ==
    [][/\ (\E p \in Procs : ipc'[p] = "done") => settings_rows' = 1
       /\ \A p \in Procs :
             interface_insert(p)
             => settings' = IF settings_rows = 0 THEN initial_settings
                            ELSE settings
       /\ \A p \in Procs : interface_count(p) => settings' = settings
      ]_vars

\* C23: when the host process receives a termination signal (hangup,
\* interrupt, quit, terminate or CPU-limit), engine.stop() is invoked
\* first, then the host's original disposition of the signal is restored
\* and the signal raised again, and the host terminates.
C23_StopThenReraise ==
    [][\A sig \in Signals :
          host_signal(sig)
          => /\ host'.trace = <<"stop", "restore", "raise">>
             /\ ~host'.alive
      ]_vars

\* C24: activate() on a host whose configuration was not active at import
\* time makes the configuration active and starts the engine: when the
\* semaphore marker is free, the start() call of activate() leaves a Monitor
\* of the engine running, although start() had been called once before
\* while the configuration was inactive.
C24_ActivateStarts ==
    [][(/\ activate
        /\ ~is_active
        /\ ~semaphore_file
        /\ returned[package_engine] # "no call")
       => /\ is_active'
          /\ monitor_thread'[package_engine] # 0
          /\ threads'[monitor_thread'[package_engine]].pc # "done"
      ]_vars

\* C25: for every well-formed crontab and every from_time the computed
\* next schedule is strictly greater than from_time (and, being a function
\* of the two, the same whenever it is computed); it is the schedule the
\* Worker gives a recurring row when it advances the row after processing.
C25_NextScheduleUsed ==
    [][/\ \A c \in {DEFAULT_CRONTAB, TEST_CRONTAB}, t \in Times :
             get_next_schedule(c, t) > t
       /\ (postprocess_task /\ task_in_hand.crontab # ""
              /\ task_in_hand \in tasks)
            => \E r \in tasks' :
                  /\ r.rowid = task_in_hand.rowid
                  /\ r.schedule = get_next_schedule(r.crontab, now)
      ]_vars

\* C26: no exception escapes the Worker loop while it processes an entry.
\* Whether the function of the entry does not resolve or the invocation
\* raises, the failure is kept to that entry: process_task hands over to
\* postprocess_task, the rest of the fetch is processed, run() goes on.
C26_NoExceptionEscapes ==
    [][process_task => wpc' = "postprocess_task"]_vars

\* C27: no poison-task livelock. A due entry whose function does not
\* resolve is removed (or marked failed) after a Worker has attempted it:
\* when the next Worker starts after the attempt, the entry is not among
\* the due entries any more.
C27_NoPoisonTask ==
    [][(/\ start_worker
        /\ wpc = "crashed"
        /\ current \in 1..Len(fetched)
        /\ task_in_hand.function \notin Resolvable)
       => task_in_hand \notin get_tasks_on_due(tasks', now')
      ]_vars

\* C28: the Worker invokes the function of a task only while it holds a
\* concurrency permit, obtained by a successful
\* try_increment_running_workers(): while a task is processed the permit is
\* counted in running_workers, and after the task running_workers is what
\* it was before.
C28_PermitHeld ==
    [][/\ process_task => settings.running_workers >= 1
       /\ postprocess_task => settings' = settings
      ]_vars

\* C29: after the Worker has processed a task that carries a correlation
\* id, the Result entry of that id holds the outcome of the execution:
\* status ready with the return value, or status error with an error
\* message that is not empty.
C29_OutcomeWritten ==
    [][(postprocess_task /\ task_in_hand.uuid # "")
       => \E e \in results' :
             /\ e.uuid = task_in_hand.uuid
             /\ \/ /\ e.status = TASK_STATUS_READY
                   /\ e.function_result = result
                \/ /\ e.status = TASK_STATUS_ERROR
                   /\ e.error_message # ""
      ]_vars

\* C30: the termination of the Worker is cooperative. A termination signal
\* only clears the active flag and interrupts nothing; the flag is looked
\* at once per iteration of the loop, where a cleared flag makes run()
\* return; and a Worker that has been signalled finishes the iteration it
\* is in, so it goes from every task on to the next step of the loop.
C30_CooperativeTermination ==
    [][/\ terminate
          => /\ ~active'
             /\ UNCHANGED <<wpc, tasks, fetched, current, result>>
       /\ (run /\ ~active) => (wpc' = "exited" /\ UNCHANGED <<tasks, fetched>>)
       /\ (process_task /\ ~active) => wpc' = "postprocess_task"
      ]_vars

\* A Monitor thread in its loop whose Worker subprocess is dead.
DeadWorker(t) ==
    /\ t \in 1..Len(threads)
    /\ threads[t].pc \in {"poll", "wait"}
    /\ threads[t].process # 0
    /\ ~procs[threads[t].process].alive

\* The Worker subprocess of Monitor thread t is alive, or the Monitor is
\* told to exit, or the run has no subprocess left to spawn.
Replaced(t) ==
    /\ t \in 1..Len(threads)
    /\ \/ /\ threads[t].process # 0
          /\ procs[threads[t].process].alive
       \/ exit_event[threads[t].engine]
       \/ Len(procs) = MaxProcs

\* C31: while the exit event is not set, a Worker subprocess that has
\* exited or crashed is replaced by a new one at the next tick of the
\* Monitor's loop. Every spawn is the step of a Monitor at the head of its
\* loop, spawns one subprocess and is followed by the wait for the idle
\* time; a Monitor that finds its Worker dead at the head of the loop
\* spawns a live one; and a dead Worker of a running Monitor is in the end
\* followed by a live one (as long as the exit event stays unset and the
\* run has subprocesses left to spawn).
C31_DeadWorkerReplaced ==
    /\ [][/\ Len(procs') <= Len(procs) + 1
          /\ Len(procs') > Len(procs) =>
                \E t \in 1..Len(threads) :
                   /\ threads[t].pc = "poll"
                   /\ threads'[t].pc = "wait"
                   /\ threads'[t].process = Len(procs')
                   /\ procs'[Len(procs')].alive
          /\ \A t \in 1..Len(threads) :
                (monitor_poll(t) /\ DeadWorker(t)) =>
                    /\ threads'[t].process = Len(procs) + 1
                    /\ procs'[threads'[t].process].alive
         ]_vars
    /\ \A t \in 1..MaxThreads :
          (DeadWorker(t) /\ ~exit_event[threads[t].engine]) ~> Replaced(t)

\* A Monitor whose first Worker died waits with its second Worker alive.
C31_Witness ==
    \E t \in 1..Len(threads) :
       /\ threads[t].pc = "wait"
       /\ ~exit_event[threads[t].engine]
       /\ threads[t].process = 2
       /\ procs[2].alive
       /\ ~procs[1].alive
       /\ Len(threads) = 1

\* C32: once the exit event is set, the Monitor terminates the Worker
\* subprocess it supervises, leaves its loop and releases the semaphore
\* file, in this order: no step removes the semaphore file while a Monitor
\* whose exit event is set still has a live Worker that has not been sent
\* the termination.
C32_TerminateBeforeRelease ==
    [][(semaphore_file /\ ~semaphore_file') =>
          \A t \in 1..Len(threads) :
             (/\ is_alive(t)
              /\ exit_event[threads[t].engine]
              /\ threads[t].process # 0
              /\ procs[threads[t].process].alive)
             => procs[threads[t].process].signalled
      ]_vars

\* C33: the semaphore file is only ever removed on behalf of the Engine
\* that created it. stop() on an Engine that never acquired the lock leaves
\* a semaphore file in place, and a Monitor that removes the file at its
\* exit, its Engine's stop() having returned already, does not remove a
\* file that exists then (one that another Engine has created since).
C33_RemovedByOwnerOnly ==
    [][/\ \A e \in Engines :
             (clean_up(e) /\ _start_allowed[e] # "True" /\ semaphore_file)
                => semaphore_file'
       /\ \A t \in 1..Len(threads) :
             (monitor_remove(t) /\ stopped[threads[t].engine]
                 /\ semaphore_file)
                => semaphore_file'
      ]_vars

\* The live Monitor threads of Engine e, and their live Worker subprocesses.
MonitorsOf(e) == {t \in Alive : threads[t].engine = e}
WorkersOf(e) ==
    {p \in AliveWorkers : \E t \in MonitorsOf(e) : threads[t].process = p}

\* C34: calling start() more than once on the same Engine, as the start at
\* import followed by activate() does, never gives the Engine more than one
\* live Monitor thread or more than one live Worker subprocess: a start()
\* while the Engine's Monitor is running starts no thread.
C34_SecondStartSpawnsNothing ==
    [][/\ ((start(package_engine) \/ activate)
             /\ MonitorsOf(package_engine) # {})
            => (threads' = threads /\ procs' = procs)
       /\ Cardinality(MonitorsOf(package_engine)') <= 1
       /\ Cardinality(WorkersOf(package_engine)') <= 1
      ]_vars

\* C35: an Engine is restartable. After a start() and a stop() that has
\* returned, a later start() on the same Engine, with the configuration
\* active and no semaphore file, creates the semaphore file again and
\* brings up a new Monitor thread whose exit event is not set, so that it
\* keeps a Worker alive until the next stop().
C35_Restartable ==
    [][\A e \in Engines :
          (/\ start(e)
           /\ returned[e] # "no call"
           /\ stopped[e]
           /\ is_active
           /\ ~semaphore_file)
          => /\ semaphore_file'
             /\ Len(threads') = Len(threads) + 1
             /\ monitor_thread'[e] = Len(threads')
             /\ ~exit_event'[e]
      ]_vars

\* An Engine whose start() was successful and whose stop() has not begun.
Started(e) ==
    /\ _start_allowed[e] = "True"
    /\ monitor_thread[e] # 0
    /\ ~stopped[e]
    /\ call[e] = "idle"

\* C36: between a successful start() and the stop() that follows it, a
\* recurring row that the host has registered is never deleted, whatever
\* else happens: the start or the respawn of the Worker subprocess, or any
\* other process that loads the store module, leaves the recurring rows of
\* the task table in place.
C36_RecurringRowsKept ==
    [][\A e \in Engines :
          (Started(e) /\ Started(e)') =>
              \A r \in tasks : r.crontab # "" => r \in tasks'
      ]_vars

\* Row r is stored under the rowid of the kept entry and is another task
\* than the entry: it differs from it in more than the schedule.
OtherTask(entry, r) ==
    /\ r.rowid = entry.rowid
    /\ \/ r.function # entry.function
       \/ r.crontab # entry.crontab
       \/ r.uuid # entry.uuid

\* C37: delete_callable(entry) and update_schedule(entry.rowid, s), called
\* for an entry that was fetched earlier, never affect another task: when
\* the fetched row has been deleted since and a row registered afterwards
\* is stored under the same rowid, that newer row is neither deleted nor
\* rescheduled.
C37_StaleEntryHarmless ==
    [][\A entry \in kept_entries : \A r \in tasks :
          OtherTask(entry, r) =>
             /\ call_delete_callable(entry) => r \in tasks'
             /\ \A s \in Times :
                   call_update_schedule(entry.rowid, s) => r \in tasks'
      ]_vars

\* C38: changing max_workers through set_max_workers leaves running_workers
\* as it is, also when the call interleaves with the
\* try_increment_running_workers() or decrement_running_workers() of a
\* Worker: the write of the settings does not take back an acquisition or
\* a release of a permit that has completed.
C38_SetMaxWorkersKeepsRunning ==
    [][\A p \in Procs :
          set_max_workers_write(p) =>
              settings'.running_workers = settings.running_workers
      ]_vars

====
